---- MODULE Spec2Model ----
(***************************************************************************)
(* A model of the skillbot backend: the alias-based skill extractor and    *)
(* reply composer of app/rag.py and the chat, conversation, profile and    *)
(* match endpoints of app/main.py over the conversation_turns table of     *)
(* app/models.py.                                                          *)
(*                                                                         *)
(* Text is a sequence of one-character strings, so that lower-casing,      *)
(* trimming, the \b word boundaries of the regular expressions and the     *)
(* code-point order of sorted() are computed character by character.       *)
(* Confidences are counted in tenths (0.7 is 7); an average is kept as the *)
(* pair of the sum and the count it is the quotient of.                    *)
(***************************************************************************)
EXTENDS Integers, Sequences, FiniteSets, TLC

VARIABLES db, uuids, chats, req, resp,
          _VECTORSTORE, _OPENAI_CLIENT, threads, made, returned

\* The module globals of rag.py and the threads that call into it.
rag_vars == <<_VECTORSTORE, _OPENAI_CLIENT, threads, made, returned>>

vars == <<db, uuids, chats, req, resp, rag_vars>>

(***************************************************************************)
(* Characters and strings                                                  *)
(***************************************************************************)

\* The characters of the model in code-point order (the order of str < str).
Ascii ==
    << "\t", "\n", " ", "!", "-", ".", "/",
       "0", "1", "2", "3", "4", "5", "6", "7", "8", "9",
       "A", "B", "C", "D", "E", "F", "G", "H", "I", "J", "K", "L", "M",
       "N", "O", "P", "Q", "R", "S", "T", "U", "V", "W", "X", "Y", "Z",
       "_",
       "a", "b", "c", "d", "e", "f", "g", "h", "i", "j", "k", "l", "m",
       "n", "o", "p", "q", "r", "s", "t", "u", "v", "w", "x", "y", "z" >>

CodeMap == [c \in {Ascii[i] : i \in 1..Len(Ascii)} |-> CHOOSE i \in 1..Len(Ascii) : Ascii[i] = c]

CharCode(c) == CodeMap[c]

UpperCase ==
    << "A", "B", "C", "D", "E", "F", "G", "H", "I", "J", "K", "L", "M",
       "N", "O", "P", "Q", "R", "S", "T", "U", "V", "W", "X", "Y", "Z" >>

LowerCase ==
    << "a", "b", "c", "d", "e", "f", "g", "h", "i", "j", "k", "l", "m",
       "n", "o", "p", "q", "r", "s", "t", "u", "v", "w", "x", "y", "z" >>

Digits == {"0", "1", "2", "3", "4", "5", "6", "7", "8", "9"}

Range(s) == {s[i] : i \in 1..Len(s)}

\* str.lower() on each character of the model.
LowerMap ==
    [c \in Range(Ascii) |->
        IF \E i \in 1..Len(UpperCase) : UpperCase[i] = c
        THEN LowerCase[CHOOSE i \in 1..Len(UpperCase) : UpperCase[i] = c]
        ELSE c]

LowerChar(c) == LowerMap[c]

\* str.lower()
Lower(s) == [i \in 1..Len(s) |-> LowerChar(s[i])]

\* The characters str.strip() removes.
Whitespace == {" ", "\t", "\n"}

\* str.strip(): drop the leading and the trailing whitespace.
RECURSIVE LStrip(_)
LStrip(s) ==
    IF s # <<>> /\ Head(s) \in Whitespace THEN LStrip(Tail(s)) ELSE s

RECURSIVE RStrip(_)
RStrip(s) ==
    IF s # <<>> /\ s[Len(s)] \in Whitespace
    THEN RStrip(SubSeq(s, 1, Len(s) - 1))
    ELSE s

Strip(s) == RStrip(LStrip(s))

\* str < str: lexicographic by code point, a proper prefix first.
RECURSIVE StrLess(_, _)
StrLess(a, b) ==
    IF b = <<>> THEN FALSE
    ELSE IF a = <<>> THEN TRUE
    ELSE IF Head(a) # Head(b) THEN CharCode(Head(a)) < CharCode(Head(b))
    ELSE StrLess(Tail(a), Tail(b))

(***************************************************************************)
(* The skill dictionary (rag.py, SKILL_CONFIG)                             *)
(***************************************************************************)

SKILL_CONFIG ==
    << [name |-> <<"P","y","t","h","o","n">>,
        category |-> <<"P","r","o","g","r","a","m","m","i","n","g"," ","L","a","n","g","u","a","g","e">>,
        aliases |-> << <<"p","y","t","h","o","n">>,
                     <<"p","y">>,
                     <<"p","y","t","h","o","n","3">> >>],
       [name |-> <<"J","a","v","a">>,
        category |-> <<"P","r","o","g","r","a","m","m","i","n","g"," ","L","a","n","g","u","a","g","e">>,
        aliases |-> << <<"j","a","v","a">> >>],
       [name |-> <<"J","a","v","a","S","c","r","i","p","t">>,
        category |-> <<"P","r","o","g","r","a","m","m","i","n","g"," ","L","a","n","g","u","a","g","e">>,
        aliases |-> << <<"j","a","v","a","s","c","r","i","p","t">>,
                     <<"j","s">> >>],
       [name |-> <<"T","y","p","e","S","c","r","i","p","t">>,
        category |-> <<"P","r","o","g","r","a","m","m","i","n","g"," ","L","a","n","g","u","a","g","e">>,
        aliases |-> << <<"t","y","p","e","s","c","r","i","p","t">>,
                     <<"t","s">> >>],
       [name |-> <<"S","Q","L">>,
        category |-> <<"D","a","t","a","b","a","s","e"," ","/"," ","Q","u","e","r","y">>,
        aliases |-> << <<"s","q","l">>,
                     <<"t","-","s","q","l">>,
                     <<"p","l","/","s","q","l">> >>],
       [name |-> <<"R","e","a","c","t">>,
        category |-> <<"F","r","o","n","t","e","n","d"," ","F","r","a","m","e","w","o","r","k">>,
        aliases |-> << <<"r","e","a","c","t">>,
                     <<"r","e","a","c","t","j","s">> >>],
       [name |-> <<"N","o","d","e",".","j","s">>,
        category |-> <<"B","a","c","k","e","n","d"," ","R","u","n","t","i","m","e">>,
        aliases |-> << <<"n","o","d","e">>,
                     <<"n","o","d","e",".","j","s">>,
                     <<"n","o","d","e","j","s">> >>],
       [name |-> <<"E","x","p","r","e","s","s">>,
        category |-> <<"B","a","c","k","e","n","d"," ","F","r","a","m","e","w","o","r","k">>,
        aliases |-> << <<"e","x","p","r","e","s","s">>,
                     <<"e","x","p","r","e","s","s","j","s">> >>],
       [name |-> <<"F","a","s","t","A","P","I">>,
        category |-> <<"B","a","c","k","e","n","d"," ","F","r","a","m","e","w","o","r","k">>,
        aliases |-> << <<"f","a","s","t","a","p","i">> >>],
       [name |-> <<"D","j","a","n","g","o">>,
        category |-> <<"B","a","c","k","e","n","d"," ","F","r","a","m","e","w","o","r","k">>,
        aliases |-> << <<"d","j","a","n","g","o">> >>],
       [name |-> <<"M","o","n","g","o","D","B">>,
        category |-> <<"D","a","t","a","b","a","s","e">>,
        aliases |-> << <<"m","o","n","g","o","d","b">>,
                     <<"m","o","n","g","o">> >>],
       [name |-> <<"P","o","s","t","g","r","e","S","Q","L">>,
        category |-> <<"D","a","t","a","b","a","s","e">>,
        aliases |-> << <<"p","o","s","t","g","r","e","s">>,
                     <<"p","o","s","t","g","r","e","s","q","l">> >>],
       [name |-> <<"M","y","S","Q","L">>,
        category |-> <<"D","a","t","a","b","a","s","e">>,
        aliases |-> << <<"m","y","s","q","l">> >>],
       [name |-> <<"A","W","S">>,
        category |-> <<"C","l","o","u","d">>,
        aliases |-> << <<"a","w","s">>,
                     <<"a","m","a","z","o","n"," ","w","e","b"," ","s","e","r","v","i","c","e","s">> >>],
       [name |-> <<"A","z","u","r","e">>,
        category |-> <<"C","l","o","u","d">>,
        aliases |-> << <<"a","z","u","r","e">> >>],
       [name |-> <<"G","C","P">>,
        category |-> <<"C","l","o","u","d">>,
        aliases |-> << <<"g","c","p">>,
                     <<"g","o","o","g","l","e"," ","c","l","o","u","d">> >>],
       [name |-> <<"D","o","c","k","e","r">>,
        category |-> <<"D","e","v","O","p","s"," ","/"," ","C","o","n","t","a","i","n","e","r","i","z","a","t","i","o","n">>,
        aliases |-> << <<"d","o","c","k","e","r">> >>],
       [name |-> <<"K","u","b","e","r","n","e","t","e","s">>,
        category |-> <<"D","e","v","O","p","s"," ","/"," ","O","r","c","h","e","s","t","r","a","t","i","o","n">>,
        aliases |-> << <<"k","u","b","e","r","n","e","t","e","s">>,
                     <<"k","8","s">> >>],
       [name |-> <<"C","I","/","C","D">>,
        category |-> <<"D","e","v","O","p","s">>,
        aliases |-> << <<"c","i","/","c","d">>,
                     <<"c","i","c","d">>,
                     <<"c","o","n","t","i","n","u","o","u","s"," ","i","n","t","e","g","r","a","t","i","o","n">>,
                     <<"c","o","n","t","i","n","u","o","u","s"," ","d","e","l","i","v","e","r","y">> >>],
       [name |-> <<"G","i","t","H","u","b"," ","A","c","t","i","o","n","s">>,
        category |-> <<"D","e","v","O","p","s">>,
        aliases |-> << <<"g","i","t","h","u","b"," ","a","c","t","i","o","n","s">> >>],
       [name |-> <<"J","e","n","k","i","n","s">>,
        category |-> <<"D","e","v","O","p","s">>,
        aliases |-> << <<"j","e","n","k","i","n","s">> >>],
       [name |-> <<"M","a","c","h","i","n","e"," ","L","e","a","r","n","i","n","g">>,
        category |-> <<"M","L"," ","/"," ","A","I">>,
        aliases |-> << <<"m","a","c","h","i","n","e"," ","l","e","a","r","n","i","n","g">>,
                     <<"m","l">>,
                     <<"m","l","/","a","i">> >>],
       [name |-> <<"D","a","t","a"," ","S","c","i","e","n","c","e">>,
        category |-> <<"D","a","t","a"," ","/"," ","A","n","a","l","y","t","i","c","s">>,
        aliases |-> << <<"d","a","t","a"," ","s","c","i","e","n","c","e">>,
                     <<"d","a","t","a"," ","s","c","i","e","n","t","i","s","t">> >>],
       [name |-> <<"P","a","n","d","a","s">>,
        category |-> <<"D","a","t","a"," ","/"," ","A","n","a","l","y","t","i","c","s">>,
        aliases |-> << <<"p","a","n","d","a","s">> >>],
       [name |-> <<"N","u","m","P","y">>,
        category |-> <<"D","a","t","a"," ","/"," ","A","n","a","l","y","t","i","c","s">>,
        aliases |-> << <<"n","u","m","p","y">>,
                     <<"n","p">> >>],
       [name |-> <<"L","a","n","g","C","h","a","i","n">>,
        category |-> <<"L","L","M"," ","/"," ","R","A","G">>,
        aliases |-> << <<"l","a","n","g","c","h","a","i","n">> >>],
       [name |-> <<"C","h","r","o","m","a","D","B">>,
        category |-> <<"V","e","c","t","o","r"," ","D","a","t","a","b","a","s","e">>,
        aliases |-> << <<"c","h","r","o","m","a">>,
                     <<"c","h","r","o","m","a","d","b">> >>] >>

(***************************************************************************)
(* re.search(r"\b" + re.escape(alias) + r"\b", text)                       *)
(***************************************************************************)

\* \w of the regular expression, on the characters of the model.
WordChars == Range(LowerCase) \cup Range(UpperCase) \cup Digits \cup {"_"}

IsWordChar(c) == c \in WordChars

\* A search without the \b anchors: the alias anywhere in the text.
WordBoundaryDropped(text, p) == TRUE

\* \b at offset p (between text[p] and text[p+1]): exactly one side is a
\* word character; beyond either end of the text there is none.
WordBoundary(text, p) ==
    LET before == p >= 1 /\ p <= Len(text) /\ IsWordChar(text[p])
        after  == p + 1 >= 1 /\ p + 1 <= Len(text) /\ IsWordChar(text[p + 1])
    IN  before # after

\* The escaped alias matches literally at offset p, between two \b.
MatchesAt(alias, text, p) ==
    /\ p + Len(alias) <= Len(text)
    /\ \A k \in 1..Len(alias) : text[p + k] = alias[k]
    /\ WordBoundary(text, p)
    /\ WordBoundary(text, p + Len(alias))

ReSearch(alias, text) ==
    \E p \in 0..(Len(text) - Len(alias)) : MatchesAt(alias, text, p)

(***************************************************************************)
(* fallback_extract_skills                                                 *)
(***************************************************************************)

\* confidence 0.7, in tenths
FALLBACK_CONFIDENCE == 7

\* The inner loop without its break: the last alias found wins.
RECURSIVE FirstAliasNoBreak(_, _, _)
FirstAliasNoBreak(aliases, text, i) ==
    IF i > Len(aliases) THEN 0
    ELSE LET later == FirstAliasNoBreak(aliases, text, i + 1)
         IN  IF later # 0 THEN later
             ELSE IF ReSearch(Lower(aliases[i]), text) THEN i
             ELSE 0

\* The inner loop: the index of the first alias (lower-cased) found in the
\* text, at which the loop breaks; 0 when the loop runs out.
RECURSIVE FirstAlias(_, _, _)
FirstAlias(aliases, text, i) ==
    IF i > Len(aliases) THEN 0
    ELSE IF ReSearch(Lower(aliases[i]), text) THEN i
    ELSE FirstAlias(aliases, text, i + 1)

\* The outer loop from entry k on; found is the insertion-ordered dict as the
\* sequence of its values.
RECURSIVE ExtractLoop(_, _, _)
ExtractLoop(k, text, found) ==
    IF k > Len(SKILL_CONFIG) THEN found
    ELSE LET skill == SKILL_CONFIG[k]
             i     == FirstAlias(skill.aliases, text, 1)
         IN  IF i # 0 /\ \A j \in 1..Len(found) : found[j].name # skill.name
             THEN ExtractLoop(k + 1, text,
                      Append(found, [name       |-> skill.name,
                                     category   |-> skill.category,
                                     confidence |-> FALLBACK_CONFIDENCE,
                                     evidence   |-> Lower(skill.aliases[i])]))
             ELSE ExtractLoop(k + 1, text, found)

fallback_extract_skills(message) == ExtractLoop(1, Lower(message), <<>>)

(***************************************************************************)
(* The string literals of the role rules and of the endpoints              *)
(***************************************************************************)

Lit ==
    [ Python |-> <<"P","y","t","h","o","n">>,
      Java |-> <<"J","a","v","a">>,
      SQL |-> <<"S","Q","L">>,
      React |-> <<"R","e","a","c","t">>,
      NodeJs |-> <<"N","o","d","e",".","j","s">>,
      Express |-> <<"E","x","p","r","e","s","s">>,
      FastAPI |-> <<"F","a","s","t","A","P","I">>,
      Django |-> <<"D","j","a","n","g","o">>,
      MongoDB |-> <<"M","o","n","g","o","D","B">>,
      PostgreSQL |-> <<"P","o","s","t","g","r","e","S","Q","L">>,
      AWS |-> <<"A","W","S">>,
      Azure |-> <<"A","z","u","r","e">>,
      GCP |-> <<"G","C","P">>,
      Docker |-> <<"D","o","c","k","e","r">>,
      Kubernetes |-> <<"K","u","b","e","r","n","e","t","e","s">>,
      CiCd |-> <<"C","I","/","C","D">>,
      GitHubActions |-> <<"G","i","t","H","u","b"," ","A","c","t","i","o","n","s">>,
      Jenkins |-> <<"J","e","n","k","i","n","s">>,
      MachineLearning |-> <<"M","a","c","h","i","n","e"," ","L","e","a","r","n","i","n","g">>,
      DataScience |-> <<"D","a","t","a"," ","S","c","i","e","n","c","e">>,
      Pandas |-> <<"P","a","n","d","a","s">>,
      NumPy |-> <<"N","u","m","P","y">>,
      LangChain |-> <<"L","a","n","g","C","h","a","i","n">>,
      ChromaDB |-> <<"C","h","r","o","m","a","D","B">>,
      RestApi |-> <<"R","E","S","T"," ","A","P","I">>,
      Skill |-> <<"S","k","i","l","l">> ]

(***************************************************************************)
(* infer_roles_from_skill_names (main.py)                                  *)
(***************************************************************************)

\* any(s in names for s in candidates)
AnyIn(candidates, names) == \E i \in 1..Len(candidates) : candidates[i] \in names

\* "Deduplicate while preserving order": the loop over roles with its seen set.
RECURSIVE UniqueRoles(_, _, _)
UniqueRoles(roles, seen, unique) ==
    IF roles = <<>> THEN unique
    ELSE IF Head(roles) \notin seen
         THEN UniqueRoles(Tail(roles), seen \cup {Head(roles)}, Append(unique, Head(roles)))
         ELSE UniqueRoles(Tail(roles), seen, unique)

\* The first rule with "or" in place of "and".
FullStackRuleEither(names) ==
    \/ Lit.React \in names
    \/ Lit.FastAPI \in names \/ Lit.NodeJs \in names \/ Lit.Express \in names

\* The condition of the first rule.
FullStackRule(names) ==
    /\ Lit.React \in names
    /\ (Lit.FastAPI \in names \/ Lit.NodeJs \in names \/ Lit.Express \in names)

infer_roles_from_skill_names(skill_names) ==
    LET names == Range(skill_names)
        r1 == IF FullStackRule(names) THEN <<"Full-Stack Developer">> ELSE <<>>
        r2 == IF AnyIn(<<Lit.FastAPI, Lit.Django, Lit.NodeJs, Lit.Express, Lit.RestApi>>, names)
              THEN Append(r1, "Backend Engineer") ELSE r1
        r3 == IF AnyIn(<<Lit.AWS, Lit.Azure, Lit.GCP, Lit.Docker, Lit.Kubernetes,
                         Lit.CiCd, Lit.GitHubActions>>, names)
              THEN Append(r2, "DevOps / Cloud Engineer") ELSE r2
        r4 == IF AnyIn(<<Lit.Pandas, Lit.NumPy, Lit.SQL, Lit.PostgreSQL, Lit.MongoDB>>, names)
              THEN Append(r3, "Data Engineer / Data Analyst") ELSE r3
        r5 == IF AnyIn(<<Lit.LangChain, Lit.ChromaDB>>, names)
              THEN Append(r4, "LLM / RAG Engineer") ELSE r4
    IN  UniqueRoles(r5, {}, <<>>)

(***************************************************************************)
(* fallback_response (rag.py)                                              *)
(*                                                                         *)
(* A reply is kept by its parts: its Python type, which of the fixed texts *)
(* it is, the skill names it lists and the roles it names.                 *)
(***************************************************************************)

\* greetings = {"hi", "hello", "hey", "hii", "hey there", "hola"}
Greetings ==
    { <<"h","i">>, <<"h","e","l","l","o">>, <<"h","e","y">>, <<"h","i","i">>,
      <<"h","e","y"," ","t","h","e","r","e">>, <<"h","o","l","a">> }

FixedReply(form) ==
    [type |-> "str", form |-> form, skill_names |-> <<>>,
     roles_kind |-> "none", roles |-> <<>>]

\* [s["name"] for s in skills]
SkillNames(skills) == [i \in 1..Len(skills) |-> skills[i].name]

\* The composer with the data rule tried before the backend rule.
ComposerRolesDataFirst(names) ==
    LET r1 == IF /\ Lit.React \in names
                 /\ (Lit.FastAPI \in names \/ Lit.NodeJs \in names \/ Lit.Express \in names)
              THEN <<"Full-Stack Developer">> ELSE <<>>
        r2 == IF AnyIn(<<Lit.Pandas, Lit.NumPy, Lit.SQL, Lit.PostgreSQL, Lit.MongoDB,
                         Lit.DataScience>>, names)
              THEN Append(r1, "Data Engineer / Data Analyst") ELSE r1
        r3 == IF AnyIn(<<Lit.FastAPI, Lit.Django, Lit.NodeJs, Lit.Express, Lit.SQL,
                         Lit.RestApi>>, names)
              THEN Append(r2, "Backend Engineer") ELSE r2
        r4 == IF AnyIn(<<Lit.AWS, Lit.Azure, Lit.GCP, Lit.Docker, Lit.Kubernetes,
                         Lit.CiCd, Lit.GitHubActions>>, names)
              THEN Append(r3, "DevOps / Cloud Engineer") ELSE r3
        r5 == IF AnyIn(<<Lit.LangChain, Lit.ChromaDB, Lit.MachineLearning>>, names)
              THEN Append(r4, "LLM / RAG Engineer") ELSE r4
    IN  UniqueRoles(r5, {}, <<>>)

\* The role rules of the composer, then its own copy of the deduplication.
ComposerRoles(names) ==
    LET r1 == IF /\ Lit.React \in names
                 /\ (Lit.FastAPI \in names \/ Lit.NodeJs \in names \/ Lit.Express \in names)
              THEN <<"Full-Stack Developer">> ELSE <<>>
        r2 == IF AnyIn(<<Lit.FastAPI, Lit.Django, Lit.NodeJs, Lit.Express, Lit.SQL,
                         Lit.RestApi>>, names)
              THEN Append(r1, "Backend Engineer") ELSE r1
        r3 == IF AnyIn(<<Lit.AWS, Lit.Azure, Lit.GCP, Lit.Docker, Lit.Kubernetes,
                         Lit.CiCd, Lit.GitHubActions>>, names)
              THEN Append(r2, "DevOps / Cloud Engineer") ELSE r2
        r4 == IF AnyIn(<<Lit.Pandas, Lit.NumPy, Lit.SQL, Lit.PostgreSQL, Lit.MongoDB,
                         Lit.DataScience>>, names)
              THEN Append(r3, "Data Engineer / Data Analyst") ELSE r3
        r5 == IF AnyIn(<<Lit.LangChain, Lit.ChromaDB, Lit.MachineLearning>>, names)
              THEN Append(r4, "LLM / RAG Engineer") ELSE r4
    IN  UniqueRoles(r5, {}, <<>>)

\* The greeting test on the message as given, without strip().
GreetingTextUnstripped(message) == Lower(message)

\* text = message.strip().lower()
GreetingText(message) == Lower(Strip(message))

fallback_response(message, skills) ==
    LET text == GreetingText(message)
    IN  IF skills = <<>> /\ \E g \in Greetings : g = text
        THEN FixedReply("greeting")
        ELSE IF skills = <<>>
        THEN FixedReply("guidance")
        ELSE LET skill_names  == SkillNames(skills)
                 unique_roles == ComposerRoles(Range(skill_names))
             IN  [type        |-> "str",
                  form        |-> "skills",
                  skill_names |-> skill_names,
                  roles_kind  |-> IF unique_roles # <<>> THEN "targets" ELSE "generic",
                  roles       |-> unique_roles]

(***************************************************************************)
(* llm_analyze_with_rag and analyze_message (rag.py)                       *)
(*                                                                         *)
(* The vector store and the OpenAI client are outside the program: llm     *)
(* says what they do in one call, [raises |-> a step of the path raised,   *)
(* content |-> completion.choices[0].message.content].                     *)
(***************************************************************************)

\* The reply a parsed or unparsed completion turns into.
LlmReply(type, form) ==
    [type |-> type, form |-> form, skill_names |-> <<>>,
     roles_kind |-> "none", roles |-> <<>>]

\* From raw = completion.choices[0].message.content on: json.loads and the
\* two data.get raise on anything but the text of a JSON object, and the
\* except branch then answers with raw itself and no skills.
llm_analyze_with_rag(message, llm) ==
    IF llm.raises
    THEN [raised |-> TRUE, reply |-> LlmReply("none", "none"), skills |-> <<>>]
    ELSE LET c == llm.content
         IN  CASE c.kind = "none" ->
                    [raised |-> FALSE, reply |-> LlmReply("NoneType", "raw"),
                     skills |-> <<>>]
               [] c.kind \in {"text", "json_other"} ->
                    [raised |-> FALSE, reply |-> LlmReply("str", "raw"),
                     skills |-> <<>>]
               [] c.kind = "json_object" ->
                    [raised |-> FALSE,
                     reply  |-> CASE c.assistant_response = "absent" ->
                                       LlmReply("str", "empty")
                                  [] c.assistant_response = "string" ->
                                       LlmReply("str", "assistant_response")
                                  [] OTHER -> LlmReply("other", "assistant_response"),
                     skills |-> IF c.skills = "list" THEN c.skills_list ELSE <<>>]

\* Fallback-only path
FallbackAnalysis(message) ==
    LET skills == fallback_extract_skills(message)
    IN  [raised |-> FALSE, reply |-> fallback_response(message, skills), skills |-> skills]

analyze_message(message, use_llm, key_set, llm) ==
    IF use_llm /\ key_set
    THEN LET r == llm_analyze_with_rag(message, llm)
         IN  IF r.raised THEN FallbackAnalysis(message) ELSE r
    ELSE FallbackAnalysis(message)

(***************************************************************************)
(* The endpoints' helpers (main.py)                                        *)
(***************************************************************************)

\* s.get(field, default) on a stored or extracted skill record
Get(s, field, default) == IF field \in DOMAIN s THEN s[field] ELSE default

\* Skill(name=str(s.get("name", "")).strip(), ...).dict(), as chat and
\* match_skills build it.
NormalizedSkill(s) ==
    [name       |-> Strip(Get(s, "name", <<>>)),
     category   |-> Strip(Get(s, "category", <<>>)),
     confidence |-> Get(s, "confidence", 0),
     evidence   |-> Strip(Get(s, "evidence", <<>>))]

\* chat: the loop that normalizes skills_list into skills_objs.
ChatSkills(skills_list) ==
    [i \in 1..Len(skills_list) |-> NormalizedSkill(skills_list[i])]

\* A session id is optional in a chat request.
NoSessionId == [some |-> FALSE, id |-> ""]

SomeSessionId(id) == [some |-> TRUE, id |-> id]

\* str(uuid.uuid4()): the n-th identifier generated, unlike all before it.
UuidPool == << "uuid-1", "uuid-2", "uuid-3", "uuid-4" >>

\* request.session_id or str(uuid.uuid4())
SessionIdFor(session_id, n) ==
    IF session_id.some /\ session_id.id # "" THEN session_id.id ELSE UuidPool[n + 1]

\* The query without its filter: every row of the table.
TurnsOfAnySession(table, session_id) == table

\* The rows of a session in the table's order (the order of their creation).
TurnsOf(table, session_id) ==
    SelectSeq(table, LAMBDA t : t.session_id = session_id)

\* order_by(created_at.asc()), rows of equal time in the table's order
RECURSIVE InsertByCreatedAt(_, _)
InsertByCreatedAt(sorted, t) ==
    IF sorted = <<>> THEN <<t>>
    ELSE IF t.created_at < Head(sorted).created_at THEN <<t>> \o sorted
    ELSE <<Head(sorted)>> \o InsertByCreatedAt(Tail(sorted), t)

RECURSIVE OrderByCreatedAt(_)
OrderByCreatedAt(turns) ==
    IF turns = <<>> THEN <<>>
    ELSE InsertByCreatedAt(OrderByCreatedAt(SubSeq(turns, 1, Len(turns) - 1)),
                           turns[Len(turns)])

\* The orders in which a query without ORDER BY can return its rows.
RowOrders(rows) ==
    {[i \in 1..Len(rows) |-> rows[f[i]]] :
        f \in {g \in [1..Len(rows) -> 1..Len(rows)] :
                  \A a, b \in 1..Len(rows) : a # b => g[a] # g[b]}}

\* Skill(**s): a stored record parses when it has the required name.
SkillParses(s) == "name" \in DOMAIN s

\* Skill(**s) on a stored record that parses; absent fields take the defaults.
ParsedSkill(s) ==
    [name       |-> s.name,
     category   |-> Get(s, "category", <<>>),
     confidence |-> Get(s, "confidence", 0),
     evidence   |-> Get(s, "evidence", <<>>)]

\* get_conversation: one TurnOut per turn, or the error the first record
\* that does not parse raises out of the handler.
ConversationOf(turns) ==
    IF \E i \in 1..Len(turns) :
          \E j \in 1..Len(turns[i].skills_json) : ~SkillParses(turns[i].skills_json[j])
    THEN [status |-> 500, turns |-> <<>>]
    ELSE [status |-> 200,
          turns  |-> [i \in 1..Len(turns) |->
                        [user_message |-> turns[i].user_message,
                         bot_response |-> turns[i].bot_response,
                         skills       |-> [j \in 1..Len(turns[i].skills_json) |->
                                             ParsedSkill(turns[i].skills_json[j])],
                         created_at   |-> turns[i].created_at]]]

\* The fold with the count set on the first occurrence of a name and never
\* incremented after it.
FoldSkillCountOnce(stats, s) ==
    LET name     == Strip(Get(s, "name", <<>>))
        stripped == Strip(Get(s, "category", <<>>))
        category == IF stripped # <<>> THEN stripped ELSE Lit.Skill
        conf     == Get(s, "confidence", 0)
    IN  IF name = <<>> THEN stats
        ELSE IF \E i \in 1..Len(stats) : stats[i].name = name
        THEN [i \in 1..Len(stats) |->
                IF stats[i].name = name
                THEN [stats[i] EXCEPT !.sum_conf = @ + conf]
                ELSE stats[i]]
        ELSE Append(stats, [name |-> name, category |-> category,
                            count |-> 1, sum_conf |-> conf])

\* get_profile: one stored record folded into skill_stats, the dict kept as
\* the sequence of its values in insertion order.
FoldSkill(stats, s) ==
    LET name     == Strip(Get(s, "name", <<>>))
        stripped == Strip(Get(s, "category", <<>>))
        category == IF stripped # <<>> THEN stripped ELSE Lit.Skill
        conf     == Get(s, "confidence", 0)
        known    == \E i \in 1..Len(stats) : stats[i].name = name
        entered  == IF known THEN stats
                    ELSE Append(stats, [name |-> name, category |-> category,
                                        count |-> 0, sum_conf |-> 0])
    IN  IF name = <<>> THEN stats
        ELSE [i \in 1..Len(entered) |->
                IF entered[i].name = name
                THEN [entered[i] EXCEPT !.count = @ + 1, !.sum_conf = @ + conf]
                ELSE entered[i]]

RECURSIVE FoldSkills(_, _)
FoldSkills(stats, skills) ==
    IF skills = <<>> THEN stats
    ELSE FoldSkills(FoldSkill(stats, Head(skills)), Tail(skills))

RECURSIVE FoldTurns(_, _)
FoldTurns(stats, turns) ==
    IF turns = <<>> THEN stats
    ELSE FoldTurns(FoldSkills(stats, Head(turns).skills_json), Tail(turns))

Max(a, b) == IF a >= b THEN a ELSE b

\* SkillCount(...) with avg_conf = sum_conf / max(count, 1), the quotient
\* kept as the pair of its terms.
SkillCountOf(info) ==
    [name           |-> info.name,
     category       |-> info.category,
     count          |-> info.count,
     avg_confidence |-> [sum |-> info.sum_conf, n |-> Max(info.count, 1)]]

\* The key without its second term: the counts alone.
KeyGreaterCountOnly(a, b) == a.count > b.count

\* (a.count, a.avg_confidence) > (b.count, b.avg_confidence)
KeyGreater(a, b) ==
    \/ a.count > b.count
    \/ /\ a.count = b.count
       /\ a.avg_confidence.sum * b.avg_confidence.n
            > b.avg_confidence.sum * a.avg_confidence.n

\* list.sort(key, reverse=True) is stable: an element goes behind every
\* element whose key is not smaller than its own.
RECURSIVE InsertDesc(_, _)
InsertDesc(sorted, x) ==
    IF sorted = <<>> THEN <<x>>
    ELSE IF KeyGreater(x, Head(sorted)) THEN <<x>> \o sorted
    ELSE <<Head(sorted)>> \o InsertDesc(Tail(sorted), x)

RECURSIVE SortDesc(_, _)
SortDesc(sorted, rest) ==
    IF rest = <<>> THEN sorted
    ELSE SortDesc(InsertDesc(sorted, Head(rest)), Tail(rest))

\* get_profile from the rows of the query, in the order it returned them.
ProfileOf(session_id, turns) ==
    IF turns = <<>>
    THEN [op |-> "profile", status |-> 404, session_id |-> session_id,
          total_turns |-> 0, total_skills |-> 0, skills |-> <<>>,
          suggested_roles |-> <<>>]
    ELSE LET skill_stats  == FoldTurns(<<>>, turns)
             unsorted     == [i \in 1..Len(skill_stats) |-> SkillCountOf(skill_stats[i])]
             skill_counts == SortDesc(<<>>, unsorted)
         IN  [op              |-> "profile",
              status          |-> 200,
              session_id      |-> session_id,
              total_turns     |-> Len(turns),
              total_skills    |-> Len(skill_counts),
              skills          |-> skill_counts,
              suggested_roles |-> infer_roles_from_skill_names(
                                      [i \in 1..Len(skill_counts) |-> skill_counts[i].name])]

\* sorted(set of str)
RECURSIVE Sorted(_)
Sorted(S) ==
    IF S = {} THEN <<>>
    ELSE LET least == CHOOSE x \in S : \A y \in S \ {x} : StrLess(x, y)
         IN  <<least>> \o Sorted(S \ {least})

\* The score with the number of candidate skills as the denominator.
MatchScoreOverCandidate(matched, cand_set, jd_set) ==
    IF cand_set # {} THEN [num |-> Len(matched), den |-> Cardinality(cand_set)]
    ELSE [num |-> 0, den |-> 1]

\* match_score = len(matched) / len(jd_set) if jd_set else 0.0, the quotient
\* kept as the pair of its terms.
MatchScore(matched, cand_set, jd_set) ==
    IF jd_set # {} THEN [num |-> Len(matched), den |-> Cardinality(jd_set)]
    ELSE [num |-> 0, den |-> 1]

\* [Skill(...) for s in raw if s.get("name")]
MatchSkillsOf(raw) ==
    LET kept == SelectSeq(raw, LAMBDA s : Get(s, "name", <<>>) # <<>>)
    IN  [i \in 1..Len(kept) |-> NormalizedSkill(kept[i])]

\* match_skills from the two analyses on.
MatchOf(cand_skills_raw, jd_skills_raw) ==
    LET cand_skills == MatchSkillsOf(cand_skills_raw)
        jd_skills   == MatchSkillsOf(jd_skills_raw)
        cand_set    == {Lower(cand_skills[i].name) : i \in 1..Len(cand_skills)}
        jd_set      == {Lower(jd_skills[i].name) : i \in 1..Len(jd_skills)}
        matched     == Sorted(cand_set \cap jd_set)
    IN  [op               |-> "match",
         status           |-> 200,
         analyses         |-> 2,
         match_score      |-> MatchScore(matched, cand_set, jd_set),
         candidate_skills |-> cand_skills,
         jd_skills        |-> jd_skills,
         matched_skills   |-> matched,
         missing_skills   |-> Sorted(jd_set \ cand_set),
         extra_skills     |-> Sorted(cand_set \ jd_set)]

\* The check without strip(): only the empty text is refused.
IsBlankUnstripped(text) == text = <<>>

\* not text.strip()
IsBlank(text) == Strip(text) = <<>>

\* The 400 of a blank required field, raised before anything else is done.
BadRequest(op) == [op |-> op, status |-> 400, analyses |-> 0]

(***************************************************************************)
(* Bounds and inputs                                                       *)
(***************************************************************************)

MaxPieces == 4

RECURSIVE Concat(_)
Concat(ps) == IF ps = <<>> THEN <<>> ELSE Head(ps) \o Concat(Tail(ps))

SeqsUpTo(S, n) == UNION {[1..m -> S] : m \in 0..n}

\* The texts of at most n pieces of a vocabulary.
TextsOver(vocab, n) == {Concat(ps) : ps \in SeqsUpTo(vocab, n)}

\* Aliases in several casings, suffixes that lengthen a token, separators.
ExtractVocab ==
    { <<"P","y","t","h","o","n">>, <<"J","S">>,
      <<"j","a","v","a","s","c","r","i","p","t">>, <<"i","n","g">>,
      <<"3">>, <<" ">>, <<".">> }

ExtractTexts == TextsOver(ExtractVocab, MaxPieces)

\* Greetings in several casings, padding, and text that is no greeting.
GreetingVocab ==
    { <<"h","i">>, <<"H","e","Y">>, <<"t","h","e","r","e">>, <<" ">>, <<"!">> }

ComposeTexts == TextsOver(GreetingVocab, MaxPieces)

MaxSkills == 2

\* The record fallback_extract_skills builds for entry k on its first alias.
RecordOf(k) ==
    [name       |-> SKILL_CONFIG[k].name,
     category   |-> SKILL_CONFIG[k].category,
     confidence |-> FALLBACK_CONFIDENCE,
     evidence   |-> SKILL_CONFIG[k].aliases[1]]

EntryOf(name) == CHOOSE k \in 1..Len(SKILL_CONFIG) : SKILL_CONFIG[k].name = name

\* Skills that fire no rule, one rule, two rules together, a composer-only rule.
ComposeRecords ==
    {RecordOf(EntryOf(n)) : n \in {Lit.Python, Lit.React, Lit.FastAPI, Lit.MachineLearning}}

ComposeSkillLists == SeqsUpTo(ComposeRecords, MaxSkills)

\* Messages for analyze_message: a greeting, skills, neither.
AnalyzeTexts ==
    TextsOver({ <<"h","i">>, <<"P","y","t","h","o","n">>, <<" ">> }, MaxPieces)

\* What the completion's content can be.
LlmContents ==
    {[kind |-> k] : k \in {"none", "text", "json_other"}}
    \cup {[kind |-> "json_object", assistant_response |-> a, skills |-> s,
           skills_list |-> l] :
              a \in {"absent", "string", "other"},
              s \in {"absent", "other"},
              l \in {<<>>}}
    \cup {[kind |-> "json_object", assistant_response |-> a, skills |-> "list",
           skills_list |-> l] :
              a \in {"absent", "string", "other"},
              l \in {<<>>, <<RecordOf(EntryOf(Lit.SQL))>>}}

LlmOutcomes ==
    {[raises |-> TRUE, content |-> [kind |-> "none"]]}
    \cup {[raises |-> FALSE, content |-> c] : c \in LlmContents}

MaxNames == 5

MaxWords == 3

\* Candidate and job texts: skill words, each with the blank that sets it
\* off, the empty text and a blank alone.
MatchVocab ==
    { <<"P","y","t","h","o","n">>, <<" ","J","a","v","a">>, <<" ","S","Q","L">> }

MatchTexts == TextsOver(MatchVocab, MaxWords) \cup { <<" ">> }

MaxTurns == 3

MaxUuids == 2

\* Chat messages: empty, blank, a greeting, one skill, two skills.
ChatMessages ==
    { <<>>, <<" ">>, <<"h","i">>, <<"S","Q","L">>,
      <<"P","y","t","h","o","n"," ","S","Q","L">> }

\* The session ids a chat request can carry: none, the empty one, one of the
\* client's own, one that an earlier response returned.
ChatSessionIds(n) ==
    {NoSessionId, SomeSessionId(""), SomeSessionId("s1")}
    \cup {SomeSessionId(UuidPool[i]) : i \in 1..n}

\* The session ids of the path of a GET: the client's, one never used, the
\* generated ones.
QuerySessionIds(n) == {"s1", "s0"} \cup {UuidPool[i] : i \in 1..n}

SessionIds == {"s1", "s0"} \cup Range(UuidPool)

\* Texts for a match request beside the chat requests: empty, blank, a skill.
ServerMatchTexts == { <<>>, <<" ">>, <<"S","Q","L">> }

\* analyze_message(text) with use_llm left at its default False, for each
\* text the endpoints are given.
LlmUnused == [raises |-> TRUE, content |-> [kind |-> "none"]]

Analysis ==
    [m \in ChatMessages \cup ServerMatchTexts \cup MatchTexts |-> analyze_message(m, FALSE, FALSE, LlmUnused)]


\* The canonical names of the dictionary and "REST API", which only the
\* role rules know.
AllNames == {SKILL_CONFIG[k].name : k \in 1..Len(SKILL_CONFIG)} \cup {Lit.RestApi}

\* Names that together can fire every rule, and one that fires none.
CoreNames ==
    {Lit.React, Lit.FastAPI, Lit.Django, Lit.AWS, Lit.SQL, Lit.LangChain, Lit.Python}

\* Every list of at most two names, and the longer lists of core names.
NameLists == SeqsUpTo(AllNames, 2) \cup SeqsUpTo(CoreNames, MaxNames)

(***************************************************************************)
(* Calls of the pure functions: the input is drawn by the initial state    *)
(* and the call answers it once.                                           *)
(***************************************************************************)

\* The turn store is empty and no request has been served.
None == 0

\* The threads that call into rag.py: the startup hook and request threads.
Threads == {"startup", "t1", "t2"}

\* rag.py as imported: both globals None, nothing built, no call under way.
ColdStart ==
    /\ _VECTORSTORE = None
    /\ _OPENAI_CLIENT = None
    /\ threads = [t \in Threads |-> [pc |-> "idle", local |-> None]]
    /\ made = [store |-> 0, client |-> 0]
    /\ returned = [store |-> {}, client |-> {}]

NoStore ==
    /\ db = <<>>
    /\ uuids = 0
    /\ chats = [s \in SessionIds |-> 0]
    /\ ColdStart

Pending == [op |-> "pending"]

InitExtract ==
    /\ NoStore
    /\ req \in {[op |-> "extract", message |-> m] : m \in ExtractTexts}
    /\ resp = Pending

\* One call of fallback_extract_skills.
ExtractCall ==
    /\ req.op = "extract"
    /\ resp = Pending
    /\ resp' = [op |-> "extract", skills |-> fallback_extract_skills(req.message)]
    /\ UNCHANGED <<db, uuids, chats, req, rag_vars>>

SpecExtract == InitExtract /\ [][ExtractCall]_vars

InitRoles ==
    /\ NoStore
    /\ req \in {[op |-> "roles", names |-> l] : l \in NameLists}
    /\ resp = Pending

\* One call of infer_roles_from_skill_names.
InferRolesCall ==
    /\ req.op = "roles"
    /\ resp = Pending
    /\ resp' = [op |-> "roles", roles |-> infer_roles_from_skill_names(req.names)]
    /\ UNCHANGED <<db, uuids, chats, req, rag_vars>>

SpecRoles == InitRoles /\ [][InferRolesCall]_vars

InitCompose ==
    /\ NoStore
    /\ req \in {[op |-> "compose", message |-> m, skills |-> s] :
                    m \in ComposeTexts, s \in ComposeSkillLists}
    /\ resp = Pending

\* One call of fallback_response.
ComposeCall ==
    /\ req.op = "compose"
    /\ resp = Pending
    /\ resp' = [op |-> "compose", reply |-> fallback_response(req.message, req.skills)]
    /\ UNCHANGED <<db, uuids, chats, req, rag_vars>>

SpecCompose == InitCompose /\ [][ComposeCall]_vars

InitAnalyze ==
    /\ NoStore
    /\ req \in {[op |-> "analyze", message |-> m, use_llm |-> u, key_set |-> k,
                  llm |-> l] :
                    m \in AnalyzeTexts, u \in BOOLEAN, k \in BOOLEAN, l \in LlmOutcomes}
    /\ resp = Pending

\* One call of analyze_message.
AnalyzeCall ==
    /\ req.op = "analyze"
    /\ resp = Pending
    /\ resp' = [op |-> "analyze",
                result |-> analyze_message(req.message, req.use_llm, req.key_set, req.llm)]
    /\ UNCHANGED <<db, uuids, chats, req, rag_vars>>

SpecAnalyze == InitAnalyze /\ [][AnalyzeCall]_vars

(***************************************************************************)
(* The endpoints                                                           *)
(*                                                                         *)
(* db is the conversation_turns table in insertion order, uuids the number *)
(* of session ids generated so far, chats the number of chat requests      *)
(* answered with success per session id; req and resp are the last request *)
(* and its response.                                                       *)
(***************************************************************************)

Init ==
    /\ NoStore
    /\ req = [op |-> "none"]
    /\ resp = [op |-> "none"]

\* chat from the call of analyze_message to the normalized skills: the
\* reply and skills_objs for each message. An error of the analysis is
\* answered with the apology and no skills.
ChatAnalysis ==
    [message \in ChatMessages |->
        LET r == Analysis[message]
        IN  [reply  |-> IF r.raised THEN FixedReply("sorry") ELSE r.reply,
             skills |-> ChatSkills(IF r.raised THEN <<>> ELSE r.skills)]]

\* POST /api/chat
Chat ==
    \E session_id \in ChatSessionIds(uuids), message \in ChatMessages :
        /\ req' = [op |-> "chat", session_id |-> session_id, message |-> message]
        /\ IF IsBlank(message)
           THEN /\ resp' = BadRequest("chat")
                /\ UNCHANGED <<db, uuids, chats, rag_vars>>
           ELSE \E sid \in {SessionIdFor(session_id, uuids)},
                   analysis \in {ChatAnalysis[message]} :
                LET generated == ~(session_id.some /\ session_id.id # "")
                    db_obj    == [id           |-> Len(db) + 1,
                                  session_id   |-> sid,
                                  user_message |-> message,
                                  bot_response |-> analysis.reply,
                                  skills_json  |-> analysis.skills,
                                  created_at   |-> Len(db) + 1]
                IN  /\ Len(db) < MaxTurns
                    /\ generated => uuids < MaxUuids
                    /\ db' = Append(db, db_obj)
                    /\ uuids' = IF generated THEN uuids + 1 ELSE uuids
                    /\ chats' = [chats EXCEPT ![sid] = @ + 1]
                    /\ UNCHANGED rag_vars
                    /\ resp' = [op         |-> "chat",
                                status     |-> 200,
                                analyses   |-> 1,
                                session_id |-> sid,
                                reply      |-> analysis.reply,
                                skills     |-> analysis.skills,
                                timestamp  |-> db_obj.created_at]

\* GET /api/conversation/{session_id}
GetConversation ==
    \E session_id \in QuerySessionIds(uuids) :
        LET listing == ConversationOf(OrderByCreatedAt(TurnsOf(db, session_id)))
        IN  /\ req' = [op |-> "conversation", session_id |-> session_id]
            /\ resp' = [op |-> "conversation", status |-> listing.status,
                        turns |-> listing.turns]
            /\ UNCHANGED <<db, uuids, chats, rag_vars>>

\* GET /api/profile/{session_id}: the query has no ORDER BY, so the rows
\* come in whatever order the database returns them.
GetProfile ==
    \E session_id \in QuerySessionIds(uuids) :
        \E turns \in RowOrders(TurnsOf(db, session_id)) :
            /\ req' = [op |-> "profile", session_id |-> session_id]
            /\ resp' = ProfileOf(session_id, turns)
            /\ UNCHANGED <<db, uuids, chats, rag_vars>>

\* match_skills on one request.
MatchResponse(candidate_text, job_description) ==
    IF IsBlank(candidate_text) \/ IsBlank(job_description)
    THEN BadRequest("match")
    ELSE MatchOf(Analysis[candidate_text].skills, Analysis[job_description].skills)

\* The responses to the match requests made beside the chat requests.
ServerMatches ==
    [c \in ServerMatchTexts, j \in ServerMatchTexts |-> MatchResponse(c, j)]

\* POST /api/match
MatchSkills ==
    \E candidate_text \in ServerMatchTexts, job_description \in ServerMatchTexts :
        /\ req' = [op |-> "match", candidate_text |-> candidate_text,
                   job_description |-> job_description]
        /\ resp' = ServerMatches[candidate_text, job_description]
        /\ UNCHANGED <<db, uuids, chats, rag_vars>>

Next == Chat \/ GetConversation \/ GetProfile \/ MatchSkills

Spec == Init /\ [][Next]_vars

\* Skill records another writer of the table can leave in skills_json: one
\* without a name, one of the dictionary with a category and a confidence
\* of its own.
ExternalSkillLists ==
    LET nameless == [category   |-> <<"D","a","t","a">>,
                     confidence |-> 9,
                     evidence   |-> <<"s","q","l">>]
        named    == [name       |-> Lit.SQL,
                     category   |-> <<"D","a","t","a">>,
                     confidence |-> 9,
                     evidence   |-> <<"s","q","l">>]
    IN  { <<nameless>>, <<named, nameless>>, <<named>> }

\* A row inserted into conversation_turns by another writer of the database:
\* the column skills_json takes any JSON list.
ExternalAppend ==
    \E skills \in ExternalSkillLists :
        /\ Len(db) < MaxTurns
        /\ db' = Append(db, [id           |-> Len(db) + 1,
                             session_id   |-> "s1",
                             user_message |-> <<"S","Q","L">>,
                             bot_response |-> FixedReply("guidance"),
                             skills_json  |-> skills,
                             created_at   |-> Len(db) + 1])
        /\ req' = [op |-> "external"]
        /\ resp' = [op |-> "external"]
        /\ UNCHANGED <<uuids, chats, rag_vars>>

NextStore == Next \/ ExternalAppend

SpecStore == Init /\ [][NextStore]_vars

InitMatch ==
    /\ NoStore
    /\ req \in {[op |-> "match", candidate_text |-> c, job_description |-> j] :
                    c \in MatchTexts, j \in MatchTexts}
    /\ resp = Pending

\* One request to POST /api/match.
MatchCall ==
    /\ req.op = "match"
    /\ resp = Pending
    /\ resp' = MatchResponse(req.candidate_text, req.job_description)
    /\ UNCHANGED <<db, uuids, chats, req, rag_vars>>

SpecMatch == InitMatch /\ [][MatchCall]_vars

(***************************************************************************)
(* get_profile over stored sessions                                        *)
(***************************************************************************)

MaxStoredTurns == 3

\* What the column skills_json of a row can hold: records as chat stores
\* them, the same names with a category or a confidence of their own (as a
\* changed dictionary or another writer leaves them), an empty list, a
\* record without a name.
StoredSkillLists ==
    LET sql      == RecordOf(EntryOf(Lit.SQL))
        python   == RecordOf(EntryOf(Lit.Python))
        java     == RecordOf(EntryOf(Lit.Java))
        sql_data == [sql EXCEPT !.category = <<"D","a","t","a">>, !.confidence = 9]
        java_low == [java EXCEPT !.confidence = 5]
        nameless == [category |-> <<"D","a","t","a">>, confidence |-> 9]
    IN  { <<sql>>, <<sql_data>>, <<python, sql>>, <<java_low>>, <<nameless>>, <<>> }

\* The row ConversationTurn(...) makes of a stored list, the i-th of the table.
StoredTurn(i, skills) ==
    [id           |-> i,
     session_id   |-> "s1",
     user_message |-> <<"S","Q","L">>,
     bot_response |-> FixedReply("guidance"),
     skills_json  |-> skills,
     created_at   |-> i]

\* Tables of one session, up to MaxStoredTurns rows in their order of creation.
StoredTables ==
    UNION {{[i \in 1..n |-> StoredTurn(i, lists[i])] :
                lists \in [1..n -> StoredSkillLists]} : n \in 1..MaxStoredTurns}

InitProfile ==
    /\ db \in StoredTables
    /\ ColdStart
    /\ uuids = 0
    /\ chats = [s \in SessionIds |-> 0]
    /\ req = [op |-> "none"]
    /\ resp = [op |-> "none"]

\* GET /api/profile/{session_id} on a table as it stands.
SpecProfile == InitProfile /\ [][GetProfile]_vars

(***************************************************************************)
(* The two copies of the role rules on the same names                      *)
(***************************************************************************)

\* Names on which the two copies differ, with names that fire the same
\* roles in both.
CompareNames ==
    {Lit.SQL, Lit.DataScience, Lit.MachineLearning,
     Lit.React, Lit.FastAPI, Lit.Pandas, Lit.LangChain}

\* Every list of at most two names, and the longer lists of those names.
CompareNameLists == SeqsUpTo(AllNames, 2) \cup SeqsUpTo(CompareNames, MaxNames)

InitCompare ==
    /\ NoStore
    /\ req \in {[op |-> "compare", names |-> l] : l \in CompareNameLists}
    /\ resp = Pending

\* The names given to infer_roles_from_skill_names, and to fallback_response
\* as the names of the skills of a message.
CompareCall ==
    /\ req.op = "compare"
    /\ resp = Pending
    /\ resp' = [op       |-> "compare",
                profile  |-> infer_roles_from_skill_names(req.names),
                composer |-> fallback_response(
                                 <<>>, [i \in 1..Len(req.names) |-> [name |-> req.names[i]]]).roles]
    /\ UNCHANGED <<db, uuids, chats, req, rag_vars>>

SpecCompare == InitCompare /\ [][CompareCall]_vars

(***************************************************************************)
(* get_vectorstore and get_openai_client under concurrent callers (rag.py) *)
(*                                                                         *)
(* OPENAI_API_KEY is set throughout. A thread runs one statement of the    *)
(* function it is in at a step: the test of the global, the construction,  *)
(* the assignment to the global, the return of the global. Instances are   *)
(* numbered in the order of their construction. The startup hook calls     *)
(* get_vectorstore alone and before any request is served; a request       *)
(* thread on the LLM path calls get_vectorstore, then get_openai_client.    *)
(***************************************************************************)

server_vars == <<db, uuids, chats, req, resp>>

At(t, pc) == threads[t].pc = pc

Goto(t, pc, local) == threads' = [threads EXCEPT ![t] = [pc |-> pc, local |-> local]]

\* Where a thread is once it has left get_vectorstore.
AfterVectorstore(t, returns) ==
    IF t = "startup" THEN "done" ELSE IF returns THEN "client_test" ELSE "idle"

\* startup_event, or llm_analyze_with_rag in a request thread, calls
\* get_vectorstore.
CallGetVectorstore ==
    \E t \in Threads :
        /\ At(t, "idle")
        /\ t # "startup" => At("startup", "done")
        /\ Goto(t, "store_test", None)
        /\ UNCHANGED <<server_vars, _VECTORSTORE, _OPENAI_CLIENT, made, returned>>

\* if _VECTORSTORE is None:
VectorstoreTest ==
    \E t \in Threads :
        /\ At(t, "store_test")
        /\ Goto(t, IF _VECTORSTORE = None THEN "store_build" ELSE "store_return", None)
        /\ UNCHANGED <<server_vars, _VECTORSTORE, _OPENAI_CLIENT, made, returned>>

\* build_vectorstore(): a new Chroma instance, or an exception of the
\* embedding service or the store, which startup_event catches and the
\* request's analyze_message turns into the fallback analysis.
VectorstoreBuild ==
    \E t \in Threads, raises \in BOOLEAN :
        /\ At(t, "store_build")
        /\ IF raises
           THEN /\ Goto(t, AfterVectorstore(t, FALSE), None)
                /\ UNCHANGED made
           ELSE /\ Goto(t, "store_assign", made.store + 1)
                /\ made' = [made EXCEPT !.store = @ + 1]
        /\ UNCHANGED <<server_vars, _VECTORSTORE, _OPENAI_CLIENT, returned>>

\* _VECTORSTORE = <the instance built>
VectorstoreAssign ==
    \E t \in Threads :
        /\ At(t, "store_assign")
        /\ _VECTORSTORE' = threads[t].local
        /\ Goto(t, "store_return", None)
        /\ UNCHANGED <<server_vars, _OPENAI_CLIENT, made, returned>>

\* return _VECTORSTORE
VectorstoreReturn ==
    \E t \in Threads :
        /\ At(t, "store_return")
        /\ returned' = [returned EXCEPT !.store = @ \cup {_VECTORSTORE}]
        /\ Goto(t, AfterVectorstore(t, TRUE), None)
        /\ UNCHANGED <<server_vars, _VECTORSTORE, _OPENAI_CLIENT, made>>

\* get_openai_client: if _OPENAI_CLIENT is None:
ClientTest ==
    \E t \in Threads :
        /\ At(t, "client_test")
        /\ Goto(t, IF _OPENAI_CLIENT = None THEN "client_make" ELSE "client_return", None)
        /\ UNCHANGED <<server_vars, _VECTORSTORE, _OPENAI_CLIENT, made, returned>>

\* OpenAI(api_key=api_key)
ClientMake ==
    \E t \in Threads :
        /\ At(t, "client_make")
        /\ Goto(t, "client_assign", made.client + 1)
        /\ made' = [made EXCEPT !.client = @ + 1]
        /\ UNCHANGED <<server_vars, _VECTORSTORE, _OPENAI_CLIENT, returned>>

\* _OPENAI_CLIENT = <the instance made>
ClientAssign ==
    \E t \in Threads :
        /\ At(t, "client_assign")
        /\ _OPENAI_CLIENT' = threads[t].local
        /\ Goto(t, "client_return", None)
        /\ UNCHANGED <<server_vars, _VECTORSTORE, made, returned>>

\* return _OPENAI_CLIENT, and the request goes on to its end.
ClientReturn ==
    \E t \in Threads :
        /\ At(t, "client_return")
        /\ returned' = [returned EXCEPT !.client = @ \cup {_OPENAI_CLIENT}]
        /\ Goto(t, "idle", None)
        /\ UNCHANGED <<server_vars, _VECTORSTORE, _OPENAI_CLIENT, made>>

InitSingletons ==
    /\ NoStore
    /\ req = [op |-> "none"]
    /\ resp = [op |-> "none"]

NextSingletons ==
    \/ CallGetVectorstore
    \/ VectorstoreTest
    \/ VectorstoreBuild
    \/ VectorstoreAssign
    \/ VectorstoreReturn
    \/ ClientTest
    \/ ClientMake
    \/ ClientAssign
    \/ ClientReturn

SpecSingletons == InitSingletons /\ [][NextSingletons]_vars

(***************************************************************************)
(* Whole words, stated on the text itself                                  *)
(***************************************************************************)

\* The word occurs in the text (compared lower-cased) with no letter, digit
\* or underscore directly before or after it.
Standalone(word, text) ==
    \E i \in 1..(Len(text) - Len(word) + 1) :
        LET j == i + Len(word) - 1
        IN  /\ \A k \in 1..Len(word) : LowerChar(text[i + k - 1]) = word[k]
            /\ (i = 1 \/ text[i - 1] \notin WordChars)
            /\ (j = Len(text) \/ text[j + 1] \notin WordChars)

\* The word occurs somewhere in the text, in any casing.
Occurs(word, text) ==
    \E i \in 1..(Len(text) - Len(word) + 1) :
        \A k \in 1..Len(word) : LowerChar(text[i + k - 1]) = word[k]

\* The entries of SKILL_CONFIG one of whose aliases is a whole word of the text.
MatchingEntries(text) ==
    {k \in 1..Len(SKILL_CONFIG) :
        \E a \in 1..Len(SKILL_CONFIG[k].aliases) :
            Standalone(SKILL_CONFIG[k].aliases[a], text)}

\* C1: fallback_extract_skills returns one record per matching entry of
\* SKILL_CONFIG and no other, in declaration order, each with the entry's
\* name and category, confidence 0.7 and as evidence the first alias, in the
\* declared alias order, that matches the lower-cased text; a text that
\* matches no alias, the empty text included, yields the empty list.
C1_ExtractRecords ==
    resp.op = "extract" =>
        LET text     == Lower(req.message)
            skills   == resp.skills
            matching == MatchingEntries(text)
        IN  /\ Len(skills) = Cardinality(matching)
            /\ \A i, j \in 1..Len(skills) : i # j => skills[i].name # skills[j].name
            /\ \A i \in 1..Len(skills) :
                 \E k \in matching :
                    /\ Cardinality({h \in matching : h < k}) = i - 1
                    /\ skills[i].name = SKILL_CONFIG[k].name
                    /\ skills[i].category = SKILL_CONFIG[k].category
                    /\ skills[i].confidence = 7
                    /\ \E a \in 1..Len(SKILL_CONFIG[k].aliases) :
                         /\ skills[i].evidence = SKILL_CONFIG[k].aliases[a]
                         /\ Standalone(SKILL_CONFIG[k].aliases[a], text)
                         /\ \A b \in 1..(a - 1) :
                              ~Standalone(SKILL_CONFIG[k].aliases[b], text)
            /\ (req.message = <<>> => skills = <<>>)

\* "JS.Python3": two records in declaration order (Python before JavaScript,
\* the reverse of the text), each with a later alias of its entry as evidence.
C1_Witness ==
    /\ resp.op = "extract"
    /\ req.message = <<"J","S",".","P","y","t","h","o","n","3">>
    /\ Len(resp.skills) = 2
    /\ resp.skills[1].name = <<"P","y","t","h","o","n">>
    /\ resp.skills[1].evidence = <<"p","y","t","h","o","n","3">>
    /\ resp.skills[2].evidence = <<"j","s">>

\* C2: aliases match as whole words only, in any casing: a skill one of
\* whose aliases stands in the message as a word of its own (no letter,
\* digit or underscore directly around it) is included exactly once, and a
\* skill whose aliases occur only inside longer tokens, or not at all, is
\* not included.
C2_WholeWords ==
    resp.op = "extract" =>
        \A k \in 1..Len(SKILL_CONFIG) :
            LET n == Cardinality({i \in 1..Len(resp.skills) :
                                    resp.skills[i].name = SKILL_CONFIG[k].name})
            IN  IF \E a \in 1..Len(SKILL_CONFIG[k].aliases) :
                      Standalone(SKILL_CONFIG[k].aliases[a], req.message)
                THEN n = 1
                ELSE n = 0

\* An upper-case alias standing alone is found while an alias that occurs
\* only inside a longer token ("java" and "javascript" in "javascripting")
\* is not.
C2_Witness ==
    /\ resp.op = "extract"
    /\ req.message = <<"J","S"," ">> \o <<"j","a","v","a","s","c","r","i","p","t","i","n","g">>
    /\ Occurs(<<"j","a","v","a">>, req.message)
    /\ Occurs(<<"j","a","v","a","s","c","r","i","p","t">>, req.message)
    /\ Len(resp.skills) = 1
    /\ resp.skills[1].name = <<"J","a","v","a","S","c","r","i","p","t">>
    /\ resp.skills[1].evidence = <<"j","s">>

(***************************************************************************)
(* The role rules as a table                                               *)
(***************************************************************************)

\* Each role with the names it requires and the names one of which it needs.
ProfileRoleRules ==
    << [role |-> "Full-Stack Developer",
        all  |-> {Lit.React},
        any  |-> {Lit.FastAPI, Lit.NodeJs, Lit.Express}],
       [role |-> "Backend Engineer",
        all  |-> {},
        any  |-> {Lit.FastAPI, Lit.Django, Lit.NodeJs, Lit.Express, Lit.RestApi}],
       [role |-> "DevOps / Cloud Engineer",
        all  |-> {},
        any  |-> {Lit.AWS, Lit.Azure, Lit.GCP, Lit.Docker, Lit.Kubernetes,
                  Lit.CiCd, Lit.GitHubActions}],
       [role |-> "Data Engineer / Data Analyst",
        all  |-> {},
        any  |-> {Lit.Pandas, Lit.NumPy, Lit.SQL, Lit.PostgreSQL, Lit.MongoDB}],
       [role |-> "LLM / RAG Engineer",
        all  |-> {},
        any  |-> {Lit.LangChain, Lit.ChromaDB}] >>

RuleFires(rule, names) == rule.all \subseteq names /\ rule.any \cap names # {}

\* The roles of the rules that fire on a set of names, in rule order.
RECURSIVE FiringRoles(_, _)
FiringRoles(rules, names) ==
    IF rules = <<>> THEN <<>>
    ELSE (IF RuleFires(Head(rules), names) THEN <<Head(rules).role>> ELSE <<>>)
         \o FiringRoles(Tail(rules), names)

\* C3: infer_roles_from_skill_names returns exactly the roles whose rule
\* fires on the set of the input names, each once and in the fixed rule
\* order, whatever the order of the input; {React, FastAPI} yields
\* Full-Stack Developer, then Backend Engineer.
C3_RolesByRule ==
    resp.op = "roles" =>
        /\ resp.roles = FiringRoles(ProfileRoleRules, Range(req.names))
        /\ \A i, j \in 1..Len(resp.roles) : i # j => resp.roles[i] # resp.roles[j]
        /\ (Range(req.names) = {Lit.React, Lit.FastAPI} =>
                resp.roles = <<"Full-Stack Developer", "Backend Engineer">>)

\* FastAPI listed before React: Full-Stack Developer still comes first.
C3_Witness ==
    /\ resp.op = "roles"
    /\ req.names = <<Lit.FastAPI, Lit.React>>
    /\ resp.roles = <<"Full-Stack Developer", "Backend Engineer">>

(***************************************************************************)
(* The three reply forms                                                   *)
(***************************************************************************)

\* The message is a greeting word, in any casing, with nothing but
\* whitespace before and after it.
IsGreeting(message) ==
    \E i \in 1..Len(message), j \in 1..Len(message) :
        /\ i <= j
        /\ \A h \in 1..(i - 1) : message[h] \in Whitespace
        /\ \A h \in (j + 1)..Len(message) : message[h] \in Whitespace
        /\ Lower(SubSeq(message, i, j)) \in Greetings

\* The role rules of the composer: those of the profile with SQL added to
\* Backend Engineer, Data Science to the data role and Machine Learning to
\* the LLM role.
ComposerRoleRules ==
    << ProfileRoleRules[1],
       [ProfileRoleRules[2] EXCEPT !.any = @ \cup {Lit.SQL}],
       ProfileRoleRules[3],
       [ProfileRoleRules[4] EXCEPT !.any = @ \cup {Lit.DataScience}],
       [ProfileRoleRules[5] EXCEPT !.any = @ \cup {Lit.MachineLearning}] >>

\* C4: fallback_response answers every (message, skills) pair with exactly
\* one of three forms: the greeting reply iff skills is empty and the
\* trimmed, lower-cased message is one of the six greetings; the guidance
\* reply iff skills is empty and the message is no such greeting; otherwise
\* the skills reply, listing the names in the order given, with the "good
\* role targets" sentence iff a role rule fires and the generic one if not.
C4_ReplyForms ==
    resp.op = "compose" =>
        LET reply == resp.reply
            names == {req.skills[i].name : i \in 1..Len(req.skills)}
            fires == \E r \in 1..Len(ComposerRoleRules) :
                        RuleFires(ComposerRoleRules[r], names)
        IN  /\ reply.form \in {"greeting", "guidance", "skills"}
            /\ reply.form = "greeting" <=> (req.skills = <<>> /\ IsGreeting(req.message))
            /\ reply.form = "guidance" <=> (req.skills = <<>> /\ ~IsGreeting(req.message))
            /\ reply.form = "skills" =>
                 /\ Len(reply.skill_names) = Len(req.skills)
                 /\ \A i \in 1..Len(req.skills) : reply.skill_names[i] = req.skills[i].name
                 /\ reply.roles_kind = "targets" <=> fires
                 /\ reply.roles_kind = "generic" <=> ~fires
                 /\ reply.roles = FiringRoles(ComposerRoleRules, names)

\* " HeY there" with no skills is greeted.
C4_Witness ==
    /\ resp.op = "compose"
    /\ req.message = <<" ","H","e","Y"," ","t","h","e","r","e">>
    /\ req.skills = <<>>
    /\ resp.reply.form = "greeting"

(***************************************************************************)
(* The fallback of analyze_message                                         *)
(***************************************************************************)

\* The path did not produce the JSON object it was asked for: a step raised,
\* the content is missing, is no JSON, or is JSON of another shape.
LlmFailed(llm) ==
    llm.raises \/ llm.content.kind \in {"none", "text", "json_other"}

\* C5: analyze_message never raises and always answers with a string; when
\* the LLM/RAG path is enabled and fails for any reason (an error raised, a
\* response that is no JSON, malformed or missing content) the attempt is
\* discarded and the result is (fallback_response(message, skills), skills)
\* with skills = fallback_extract_skills(message).
C5_AlwaysFallsBack ==
    resp.op = "analyze" =>
        /\ ~resp.result.raised
        /\ resp.result.reply.type = "str"
        /\ (req.use_llm /\ req.key_set /\ LlmFailed(req.llm) =>
                LET skills == fallback_extract_skills(req.message)
                IN  /\ resp.result.skills = skills
                    /\ resp.result.reply = fallback_response(req.message, skills))

(***************************************************************************)
(* The profile of a session                                                *)
(***************************************************************************)

\* The stored skill records of some turns, one after the other.
StoredRecords(turns) == Concat([i \in 1..Len(turns) |-> turns[i].skills_json])

RECURSIVE SumConfidence(_, _)
SumConfidence(records, name) ==
    IF records = <<>> THEN 0
    ELSE (IF Head(records).name = name THEN Head(records).confidence ELSE 0)
         + SumConfidence(Tail(records), name)

\* C6: for a session with turns, get_profile returns total_turns = the
\* number of its turns, total_skills = the number of distinct names in the
\* turns' stored skill lists, and for each such name one SkillCount whose
\* count (at least 1) is the number of stored records with that name and
\* whose avg_confidence is the sum of their confidences over that count; two
\* turns each holding SQL at 0.7 give count 2 and average 0.7.
C6_ProfileCounts ==
    (resp.op = "profile" /\ resp.status = 200) =>
        LET turns   == TurnsOf(db, req.session_id)
            records == StoredRecords(turns)
            names   == {records[i].name : i \in 1..Len(records)}
        IN  /\ turns # <<>>
            /\ resp.total_turns = Len(turns)
            /\ resp.total_skills = Cardinality(names)
            /\ Len(resp.skills) = Cardinality(names)
            /\ \A n \in names :
                 \E i \in 1..Len(resp.skills) :
                    LET e == resp.skills[i]
                    IN  /\ e.name = n
                        /\ \A j \in 1..Len(resp.skills) : resp.skills[j].name = n => j = i
                        /\ e.count >= 1
                        /\ e.count = Cardinality({k \in 1..Len(records) : records[k].name = n})
                        /\ e.avg_confidence.sum = SumConfidence(records, n)
                        /\ e.avg_confidence.n = e.count
                        /\ (e.count = 2 /\ SumConfidence(records, n) = 7 + 7 =>
                                e.avg_confidence.sum = 7 * e.avg_confidence.n)

\* A session of two turns, SQL in both and Python in one: SQL has count 2
\* and average 0.7, Python count 1.
C6_Witness ==
    /\ resp.op = "profile"
    /\ resp.status = 200
    /\ resp.total_turns = 2
    /\ resp.total_skills = 2
    /\ resp.skills[1].name = Lit.SQL
    /\ resp.skills[1].count = 2
    /\ resp.skills[1].avg_confidence = [sum |-> 14, n |-> 2]
    /\ resp.skills[2].count = 1

\* C7: get_profile answers 404 iff no turn is stored for the session id;
\* once a chat request for a session has succeeded, every profile request
\* for it is answered with a profile, whose total_turns is the number of
\* chat requests that have succeeded for the session so far.
C7_NotFoundIffNoTurn ==
    resp.op = "profile" =>
        /\ resp.status \in {200, 404}
        /\ resp.status = 404 <=> TurnsOf(db, req.session_id) = <<>>
        /\ resp.status = 404 <=> chats[req.session_id] = 0
        /\ resp.status = 200 => resp.total_turns = chats[req.session_id]

\* A profile of two turns while another session holds a turn of its own.
C7_Witness ==
    /\ resp.op = "profile"
    /\ resp.status = 200
    /\ resp.total_turns = 2
    /\ chats[req.session_id] = 2
    /\ Len(db) = 3

(***************************************************************************)
(* The match of two texts                                                  *)
(***************************************************************************)

\* The lower-cased names of the skills found in a text.
LowerNamesIn(text) ==
    LET skills == fallback_extract_skills(text)
    IN  {Lower(skills[i].name) : i \in 1..Len(skills)}

\* A list of strings in strictly ascending order.
Ascending(list) == \A i \in 1..(Len(list) - 1) : StrLess(list[i], list[i + 1])

\* C8: for two non-blank texts match_skills returns, over the lower-cased
\* skill names of the candidate and of the job description, matched = their
\* intersection, missing = job - candidate, extra = candidate - job, each
\* as a sorted list, and match_score = |matched| / |job names|, or 0.0 when
\* the job has no names; "Python SQL" against "Python Java SQL" gives
\* [python, sql], [java], [] and 2/3.
C8_MatchSets ==
    (resp.op = "match" /\ resp.status = 200) =>
        LET cand    == LowerNamesIn(req.candidate_text)
            jd      == LowerNamesIn(req.job_description)
            matched == Range(resp.matched_skills)
            missing == Range(resp.missing_skills)
            extra   == Range(resp.extra_skills)
        IN  /\ matched = cand \cap jd
            /\ missing = jd \ cand
            /\ extra = cand \ jd
            /\ Ascending(resp.matched_skills)
            /\ Ascending(resp.missing_skills)
            /\ Ascending(resp.extra_skills)
            /\ matched \cap missing = {} /\ matched \cap extra = {} /\ missing \cap extra = {}
            /\ matched \cup missing = jd
            /\ matched \cup extra = cand
            /\ resp.match_score.den > 0
            /\ IF jd # {}
               THEN resp.match_score.num * Cardinality(jd)
                        = Cardinality(matched) * resp.match_score.den
               ELSE resp.match_score.num = 0
            /\ (/\ req.candidate_text = <<"P","y","t","h","o","n"," ","S","Q","L">>
                /\ req.job_description
                     = <<"P","y","t","h","o","n"," ","J","a","v","a"," ","S","Q","L">>
                => /\ resp.matched_skills = << <<"p","y","t","h","o","n">>, <<"s","q","l">> >>
                   /\ resp.missing_skills = << <<"j","a","v","a">> >>
                   /\ resp.extra_skills = <<>>
                   /\ resp.match_score.num * 3 = 2 * resp.match_score.den)

\* "Python SQL" against "Python Java SQL".
C8_Witness ==
    /\ resp.op = "match"
    /\ resp.status = 200
    /\ req.candidate_text = <<"P","y","t","h","o","n"," ","S","Q","L">>
    /\ req.job_description = <<"P","y","t","h","o","n"," ","J","a","v","a"," ","S","Q","L">>
    /\ resp.missing_skills = << <<"j","a","v","a">> >>
    /\ resp.match_score = [num |-> 2, den |-> 3]

(***************************************************************************)
(* Blank requests                                                          *)
(***************************************************************************)

\* Nothing but whitespace, if anything at all.
OnlyWhitespace(text) == \A i \in 1..Len(text) : text[i] \in Whitespace

\* C9: a chat request with an empty or whitespace-only message is refused
\* and changes nothing: no turn is stored and no session id generated; a
\* match request with a blank candidate_text or job_description is refused
\* before any analysis runs; a chat request with any other message stores
\* exactly one new turn and leaves the turns stored before as they were.
C9_BlankRejected ==
    [][ /\ req'.op = "chat" =>
             IF OnlyWhitespace(req'.message)
             THEN /\ resp'.status = 400
                  /\ resp'.analyses = 0
                  /\ db' = db
                  /\ uuids' = uuids
                  /\ chats' = chats
             ELSE /\ resp'.status = 200
                  /\ Len(db') = Len(db) + 1
                  /\ SubSeq(db', 1, Len(db)) = db
                  /\ db'[Len(db')].user_message = req'.message
                  /\ db'[Len(db')].session_id = resp'.session_id
        /\ req'.op = "match" =>
             /\ db' = db
             /\ IF OnlyWhitespace(req'.candidate_text) \/ OnlyWhitespace(req'.job_description)
                THEN resp'.status = 400 /\ resp'.analyses = 0
                ELSE resp'.status = 200
      ]_vars

\* A whitespace-only message refused by a server that already holds a turn.
C9_Witness ==
    /\ req.op = "chat"
    /\ req.message = <<" ">>
    /\ ~req.session_id.some
    /\ resp.status = 400
    /\ Len(db) = 1
    /\ uuids = 0

(***************************************************************************)
(* Stored skill records that do not parse                                  *)
(***************************************************************************)

\* The records of a stored list that parse, parsed.
WellFormed(skills_json) ==
    LET kept == SelectSeq(skills_json, SkillParses)
    IN  [i \in 1..Len(kept) |-> ParsedSkill(kept[i])]

\* C10: get_conversation skips a stored skill record that does not parse
\* into a Skill (one without a name) and still lists every turn of the
\* session with the records that do parse; no stored record aborts it.
C10_MalformedSkipped ==
    resp.op = "conversation" =>
        LET turns == TurnsOf(db, req.session_id)
        IN  /\ resp.status = 200
            /\ Len(resp.turns) = Len(turns)
            /\ \A i \in 1..Len(turns) :
                 /\ resp.turns[i].user_message = turns[i].user_message
                 /\ resp.turns[i].skills = WellFormed(turns[i].skills_json)

(***************************************************************************)
(* The category and the order of a profile's skills                        *)
(***************************************************************************)

\* The stored records of the turns that carry a name, in the turns' order
\* and within a turn in the order of its list.
NamedRecords(turns) == SelectSeq(StoredRecords(turns), SkillParses)

\* The first record of the list with the name.
FirstNamed(records, name) ==
    records[CHOOSE k \in 1..Len(records) :
                /\ records[k].name = name
                /\ \A j \in 1..(k - 1) : records[j].name # name]

\* C11: in a profile the category of each skill name is the category of the
\* name's first occurrence with the session's turns taken in ascending
\* order of creation (within a turn in the order of its list), whatever the
\* categories of later occurrences; the aggregation always reads the turns
\* in that order, so every read of the same stored session gives the same
\* profile.
C11_FirstSeenCategory ==
    (resp.op = "profile" /\ resp.status = 200) =>
        LET turns   == OrderByCreatedAt(TurnsOf(db, req.session_id))
            records == NamedRecords(turns)
        IN  /\ \A i \in 1..Len(resp.skills) :
                 resp.skills[i].category
                    = FirstNamed(records, resp.skills[i].name).category
            /\ resp = ProfileOf(req.session_id, turns)

\* The statistics of the names in the stored records: for each name the
\* number of records that carry it and the sum of their confidences.
AggregatedStats(records) ==
    {[name  |-> n,
      count |-> Cardinality({k \in 1..Len(records) : records[k].name = n}),
      sum   |-> SumConfidence(records, n)] :
        n \in {records[k].name : k \in 1..Len(records)}}

\* C12: the skills of a profile are in descending order of count and, for
\* equal counts, of avg_confidence: of two adjacent entries a, b either
\* a.count > b.count, or the counts are equal and a.avg_confidence >=
\* b.avg_confidence; the list holds each aggregated statistic exactly once
\* and nothing else.
C12_SortedByCountThenAvg ==
    (resp.op = "profile" /\ resp.status = 200) =>
        LET skills == resp.skills
            stats  == AggregatedStats(NamedRecords(TurnsOf(db, req.session_id)))
        IN  /\ \A i \in 1..(Len(skills) - 1) :
                 LET a == skills[i]
                     b == skills[i + 1]
                 IN  \/ a.count > b.count
                     \/ /\ a.count = b.count
                        /\ a.avg_confidence.sum * b.avg_confidence.n
                             >= b.avg_confidence.sum * a.avg_confidence.n
            /\ Len(skills) = Cardinality(stats)
            /\ {[name  |-> skills[i].name,
                 count |-> skills[i].count,
                 sum   |-> skills[i].avg_confidence.sum] : i \in 1..Len(skills)} = stats
            /\ \A i \in 1..Len(skills) : skills[i].avg_confidence.n = skills[i].count

\* Java at 0.5 stored first, then Python and SQL, then SQL again: SQL leads
\* with count 2, then Python at 0.7 before Java at 0.5.
C12_Witness ==
    /\ resp.op = "profile"
    /\ resp.status = 200
    /\ Len(db) = 3
    /\ Len(resp.skills) = 3
    /\ resp.skills[1].name = Lit.SQL
    /\ resp.skills[1].count = 2
    /\ resp.skills[2].name = Lit.Python
    /\ resp.skills[2].avg_confidence = [sum |-> 7, n |-> 1]
    /\ resp.skills[3].name = Lit.Java
    /\ resp.skills[3].avg_confidence = [sum |-> 5, n |-> 1]
    /\ db[1].skills_json[1].name = Lit.Java

(***************************************************************************)
(* The profile's roles against the composer's                              *)
(***************************************************************************)

\* sub is what is left of list after dropping some of its elements.
RECURSIVE IsSubList(_, _)
IsSubList(sub, list) ==
    IF sub = <<>> THEN TRUE
    ELSE IF list = <<>> THEN FALSE
    ELSE IF Head(sub) = Head(list) THEN IsSubList(Tail(sub), Tail(list))
    ELSE IsSubList(sub, Tail(list))

\* C13: for every set of skill names the roles of the profile rules are a
\* sub-list, in the same relative order, of the roles of the composer rules
\* for the same names; the two lists differ only when the names hold SQL,
\* Data Science or Machine Learning and no name that fires the same role
\* (Backend Engineer, the data role, the LLM role) under the profile rules.
C13_ProfileRolesWithinComposer ==
    resp.op = "compare" =>
        LET names == Range(req.names)
            fires(k) == RuleFires(ProfileRoleRules[k], names)
        IN  /\ IsSubList(resp.profile, resp.composer)
            /\ \A r \in Range(resp.profile) : r \in Range(resp.composer)
            /\ resp.profile # resp.composer <=>
                 \/ Lit.SQL \in names /\ ~fires(2)
                 \/ Lit.DataScience \in names /\ ~fires(4)
                 \/ Lit.MachineLearning \in names /\ ~fires(5)

\* Machine Learning and SQL: the profile names the data role alone, the
\* composer Backend Engineer before it and the LLM role after it.
C13_Witness ==
    /\ resp.op = "compare"
    /\ req.names = <<Lit.MachineLearning, Lit.SQL>>
    /\ resp.profile = <<"Data Engineer / Data Analyst">>
    /\ resp.composer = <<"Backend Engineer", "Data Engineer / Data Analyst",
                         "LLM / RAG Engineer">>

(***************************************************************************)
(* One instance of each global                                             *)
(***************************************************************************)

\* C14: with OPENAI_API_KEY set, in every interleaving of concurrent calls
\* of get_vectorstore (the startup hook and request threads)
\* build_vectorstore builds at most one store and every call returns the
\* same instance; likewise get_openai_client makes at most one OpenAI
\* client and every call returns that one.
C14_Singletons ==
    /\ made.store <= 1
    /\ Cardinality(returned.store) <= 1
    /\ made.client <= 1
    /\ Cardinality(returned.client) <= 1

====
